---- MODULE Spec2Model ----
(***************************************************************************)
(* Model of the jewellery store front-end:                                 *)
(*   - the API-backed admin panel (class AdminPanel),                      *)
(*   - the localStorage-backed "simple admin" script,                      *)
(*   - the product page's API client (class ProductManager).               *)
(* Each script runs on its own page; the variable `page` says which one    *)
(* a behaviour is about, and the variables of the other pages stay idle.   *)
(* Strings are searched and lower-cased as sequences of characters.        *)
(***************************************************************************)
EXTENDS Integers, Sequences, FiniteSets, TLC

VARIABLES
    page,               \* "panel" | "local" | "product" | "safeSave" | "calls"
    \* ---- admin panel (AdminPanel) ----
    server,             \* the backend's product table (sequence of records)
    net,                \* requests in flight and their responses
    nextRid,            \* next request identifier
    nops,               \* user-triggered add/update/delete submissions so far
    nfails,             \* requests that failed so far
    products,           \* this.products
    currentPage,        \* this.currentPage
    totalPages,         \* this.totalPages
    currentEditId,      \* this.currentEditId
    currentDeleteId,    \* this.currentDeleteId
    editModalActive,    \* #editModal has class "active"
    deleteModalActive,  \* #deleteModal has class "active"
    searchProducts,     \* value of the #searchProducts input
    categoryFilter,     \* value of the #categoryFilter select
    tbody,              \* what #productsTableBody shows
    pagination,         \* the controls rendered into #pagination
    notes,              \* notifications shown by the latest handler step
    \* ---- simple admin (localStorage) ----
    localStorage,       \* key -> stored text
    now,                \* the value Date.now() returns
    suspended,          \* submit handlers suspended in an await
    nsubmits,           \* form submissions so far
    outcome,            \* what the latest handler step did
    \* ---- product page (ProductManager) ----
    pm,                 \* the product manager and its one request
    \* ---- helper functions called on their own ----
    call                \* the latest call: function, arguments, result

panelVars == <<server, net, nextRid, nops, nfails, products, currentPage, totalPages,
               currentEditId, currentDeleteId, editModalActive, deleteModalActive,
               searchProducts, categoryFilter, tbody, pagination, notes>>
localVars == <<localStorage, now, suspended, nsubmits, outcome>>
vars == <<page, panelVars, localVars, pm, call>>

(***************************************************************************)
(* Bounds of the model                                                     *)
(***************************************************************************)
InitialProducts == 11   \* rows in the backend's table when the page is opened
MaxOps == 2         \* add/update/delete submissions per behaviour (panel)
MaxInFlight == 2    \* the user submits only while fewer requests are pending
MaxFails == 1       \* requests that fail per behaviour (panel)
Quota == 4          \* what localStorage holds, in units of one record without image
MaxSubmits == 2     \* form submissions per behaviour (simple admin)
MaxClock == 3       \* the clock's last value (simple admin)
MaxArray == 5       \* longest array handed to safeSaveLocal
MaxItems == 25      \* longest list handed to getPaginatedProducts
MaxPages == 12      \* most pages handed to renderPagination
MaxStock == 25      \* largest stock count handed to getStockClass

(***************************************************************************)
(* Strings                                                                 *)
(***************************************************************************)
UpperChars == <<"A","B","C","D","E","F","G","H","I","J","K","L","M","N","O","P","Q","R","S","T","U","V","W","X","Y","Z">>
LowerChars == <<"a","b","c","d","e","f","g","h","i","j","k","l","m","n","o","p","q","r","s","t","u","v","w","x","y","z">>

\* String.prototype.toLowerCase, one character (ASCII letters; others unchanged)
LowerChar(c) ==
    IF \E i \in DOMAIN UpperChars : UpperChars[i] = c
    THEN LowerChars[CHOOSE i \in DOMAIN UpperChars : UpperChars[i] = c]
    ELSE c

\* the characters that occur in the model's strings
Alphabet == { UpperChars[i] : i \in DOMAIN UpperChars } \cup
            { LowerChars[i] : i \in DOMAIN LowerChars } \cup { " ", "1", "8" }

LowerTable == [c \in Alphabet |-> LowerChar(c)]

\* A string value is written as a TLA+ string; its characters, which the string
\* operations work on, are listed here for every string of the model.
StringTable ==
    [ s \in {""} |-> <<>> ] @@
    ("Golden Elegance Necklace" :> <<"G","o","l","d","e","n"," ","E","l","e","g","a","n","c","e"," ","N","e","c","k","l","a","c","e">>) @@
    ("Handcrafted in 18K gold with dazzling diamonds" :> <<"H","a","n","d","c","r","a","f","t","e","d"," ","i","n"," ","1","8","K"," ","g","o","l","d"," ","w","i","t","h"," ","d","a","z","z","l","i","n","g"," ","d","i","a","m","o","n","d","s">>) @@
    ("Diamond Ring" :> <<"D","i","a","m","o","n","d"," ","R","i","n","g">>) @@
    ("Exquisite diamond ring with platinum setting" :> <<"E","x","q","u","i","s","i","t","e"," ","d","i","a","m","o","n","d"," ","r","i","n","g"," ","w","i","t","h"," ","p","l","a","t","i","n","u","m"," ","s","e","t","t","i","n","g">>) @@
    ("Pearl Earrings" :> <<"P","e","a","r","l"," ","E","a","r","r","i","n","g","s">>) @@
    ("Classic pearl earrings for elegant occasions" :> <<"C","l","a","s","s","i","c"," ","p","e","a","r","l"," ","e","a","r","r","i","n","g","s"," ","f","o","r"," ","e","l","e","g","a","n","t"," ","o","c","c","a","s","i","o","n","s">>) @@
    ("Luxury Bracelet" :> <<"L","u","x","u","r","y"," ","B","r","a","c","e","l","e","t">>) @@
    ("Sophisticated gold bracelet with intricate design" :> <<"S","o","p","h","i","s","t","i","c","a","t","e","d"," ","g","o","l","d"," ","b","r","a","c","e","l","e","t"," ","w","i","t","h"," ","i","n","t","r","i","c","a","t","e"," ","d","e","s","i","g","n">>) @@
    ("Ring" :> <<"R","i","n","g">>) @@
    ("Chain" :> <<"C","h","a","i","n">>) @@
    ("Gold" :> <<"G","o","l","d">>) @@
    ("RING" :> <<"R","I","N","G">>) @@
    ("ring" :> <<"r","i","n","g">>) @@
    ("pearl" :> <<"p","e","a","r","l">>)

chars(s) == StringTable[s]

\* String.prototype.toLowerCase (on the characters)
toLowerCase(s) == [i \in DOMAIN s |-> LowerTable[s[i]]]

\* a match at the start of s only (sensitivity variant for C14)
includes_startOnly(s, t) == Len(t) <= Len(s) /\ SubSeq(s, 1, Len(t)) = t

\* String.prototype.includes: t occurs in s as a contiguous substring
includes(s, t) ==
    \E i \in 1..(Len(s) - Len(t) + 1) : SubSeq(s, i, i + Len(t) - 1) = t

\* s.toLowerCase() and s.toLowerCase().includes(t.toLowerCase()), tabulated once
\* for the strings of the model
LowerCased == [s \in DOMAIN StringTable |-> toLowerCase(chars(s))]

LowerIncludesTable ==
    [s \in DOMAIN StringTable |->
        [t \in DOMAIN StringTable |-> includes(LowerCased[s], LowerCased[t])]]

lowerIncludes(s, t) == LowerIncludesTable[s][t]

\* Array.prototype.slice(a, b) for 0 <= a <= b
slice(s, a, b) == SubSeq(s, a + 1, IF b < Len(s) THEN b ELSE Len(s))

\* Math.ceil(a / b) for a >= 0, b > 0
ceilDiv(a, b) == (a + b - 1) \div b

(***************************************************************************)
(* Admin panel: data                                                       *)
(***************************************************************************)
NULL == 0                \* null (no product has id 0)
itemsPerPage == 10       \* this.itemsPerPage

Product(i, n, c, s, d) == [id |-> i, name |-> n, category |-> c, stock |-> s, description |-> d]

\* the four sample products of loadMockProducts
MockProducts == <<
    Product(1, "Golden Elegance Necklace",
            "necklaces", 15,
            "Handcrafted in 18K gold with dazzling diamonds"),
    Product(2, "Diamond Ring",
            "rings", 8,
            "Exquisite diamond ring with platinum setting"),
    Product(3, "Pearl Earrings",
            "earrings", 3,
            "Classic pearl earrings for elegant occasions"),
    Product(4, "Luxury Bracelet",
            "bracelets", 12,
            "Sophisticated gold bracelet with intricate design") >>

\* what the add and edit forms can hold when they are submitted
\* (prepareProductData: the form's fields, price and stock parsed)
FormInputs == {
    [name |-> "Ring", category |-> "rings", stock |-> 7,
     description |-> "Gold"] }

\* the backend's rows before the page is opened: id i is a ring when i is odd
CatalogueRow(i) ==
    IF i % 2 = 1
    THEN Product(i, "Ring", "rings", i, "Gold")
    ELSE Product(i, "Chain", "necklaces", i, "Gold")

Catalogue(n) == [i \in 1..n |-> CatalogueRow(i)]

\* values the search box and the category select are set to, as
\* <<search text, category>>; an event changes one of the two
FilterInputs == { << "", "" >>,
                  << "RING", "" >>,
                  << "RING", "necklaces" >> }

(***************************************************************************)
(* Admin panel: list renderer                                              *)
(***************************************************************************)
\* a filter that searches the name only (sensitivity variant for C15)
matchesFilter_nameOnly(product, searchValue, categoryValue) ==
    /\ LowerCased[searchValue] = <<>> \/ lowerIncludes(product.name, searchValue)
    /\ categoryValue = "" \/ product.category = categoryValue

\* the predicate of getFilteredProducts' filter callback
matchesFilter(product, searchValue, categoryValue) ==
    LET matchesSearch ==
            \/ LowerCased[searchValue] = <<>>
            \/ lowerIncludes(product.name, searchValue)
            \/ lowerIncludes(product.description, searchValue)
        matchesCategory == categoryValue = "" \/ product.category = categoryValue
    IN  matchesSearch /\ matchesCategory

getFilteredProducts(prods, searchValue, categoryValue) ==
    SelectSeq(prods, LAMBDA p : matchesFilter(p, searchValue, categoryValue))

\* a page slice one item too long (sensitivity variant for C16)
getPaginatedProducts_oneMore(prods, cur) ==
    slice(prods, (cur - 1) * itemsPerPage, cur * itemsPerPage + 1)

getPaginatedProducts(prods, cur) ==
    LET startIndex == (cur - 1) * itemsPerPage
        endIndex == startIndex + itemsPerPage
    IN  slice(prods, startIndex, endIndex)

\* the controls renderPagination writes for totalPages > 1: the Previous button,
\* the page buttons and ellipses of the loop, the Next button
Control(k, p, dis) == [kind |-> k, page |-> p, disabled |-> dis]

\* page controls with an ellipsis for every page left out (sensitivity variant
\* for C17)
RECURSIVE pageControls_everyGap(_, _, _)
pageControls_everyGap(i, total, cur) ==
    IF i > total THEN <<>>
    ELSE (IF i = 1 \/ i = total \/ (i >= cur - 2 /\ i <= cur + 2)
          THEN << Control("page", i, FALSE) >>
          ELSE << Control("ellipsis", i, TRUE) >>)
         \o pageControls_everyGap(i + 1, total, cur)

RECURSIVE pageControls(_, _, _)
pageControls(i, total, cur) ==
    IF i > total THEN <<>>
    ELSE (IF i = 1 \/ i = total \/ (i >= cur - 2 /\ i <= cur + 2)
          THEN << Control("page", i, FALSE) >>
          ELSE IF i = cur - 3 \/ i = cur + 3
               THEN << Control("ellipsis", i, TRUE) >>
               ELSE <<>>)
         \o pageControls(i + 1, total, cur)

paginationControls(total, cur) ==
    IF total <= 1 THEN <<>>
    ELSE << Control("prev", cur - 1, cur = 1) >>
         \o pageControls(1, total, cur)
         \o << Control("next", cur + 1, cur = total) >>

\* renderProducts: the table body, and (only when the page slice is not empty)
\* renderPagination, which sets this.totalPages and rewrites the controls
renderProducts(prods, cur, searchValue, categoryValue) ==
    LET filteredProducts == getFilteredProducts(prods, searchValue, categoryValue)
        paginatedProducts == getPaginatedProducts(filteredProducts, cur)
        total == ceilDiv(Len(filteredProducts), itemsPerPage)
    IN  IF paginatedProducts = <<>>
        THEN /\ tbody' = [state |-> "empty", rows |-> <<>>]
             /\ UNCHANGED <<totalPages, pagination>>
        ELSE /\ tbody' = [state |-> "rows",
                          rows |-> [i \in DOMAIN paginatedProducts |-> paginatedProducts[i].id]]
             /\ totalPages' = total
             /\ pagination' = paginationControls(total, cur)

\* showLoading
showLoading == tbody' = [state |-> "loading", rows |-> <<>>]

Note(m, t) == [message |-> m, type |-> t]

\* the two notifications of a failed request: apiRequest's catch, then the caller's
failureNotes(what) ==
    << Note("Error connecting to server", "error"), Note(what, "error") >>

(***************************************************************************)
(* Admin panel: requests                                                   *)
(***************************************************************************)
NoForm == [name |-> "", category |-> "", stock |-> 0, description |-> ""]

Request(rid, op, id, body) ==
    [rid |-> rid, op |-> op, id |-> id, body |-> body, stage |-> "sent", resp |-> <<>>]

\* apiRequest up to its first await: fetch is called
sendRequest(op, id, body) ==
    /\ net' = net \cup { Request(nextRid, op, id, body) }
    /\ nextRid' = nextRid + 1

\* loadProducts up to its first await (showLoading, then the GET)
loadProductsStart(fromNet) ==
    /\ showLoading
    /\ net' = fromNet \cup { Request(nextRid, "load", NULL, NoForm) }
    /\ nextRid' = nextRid + 1

hasId(rows, id) == \E i \in DOMAIN rows : rows[i].id = id

maxId(rows) ==
    IF rows = <<>> THEN 0
    ELSE CHOOSE m \in { rows[i].id : i \in DOMAIN rows } :
             \A i \in DOMAIN rows : rows[i].id <= m

noModal == ~editModalActive /\ ~deleteModalActive

(***************************************************************************)
(* Simple admin: the local store adapter                                   *)
(***************************************************************************)
PRODUCTS_KEY == "local-products"
CATEGORIES_KEY == "local-categories"
Keys == {PRODUCTS_KEY, CATEGORIES_KEY}
otherKey(key) == IF key = PRODUCTS_KEY THEN CATEGORIES_KEY ELSE PRODUCTS_KEY

\* what localStorage.getItem can return: null, the JSON text of an array,
\* or a text JSON.parse rejects
Absent == [kind |-> "absent", items |-> <<>>]
Malformed == [kind |-> "malformed", items |-> <<>>]
\* JSON.stringify of an array of records
stringify(arr) == [kind |-> "array", items |-> arr]

\* valid JSON texts that are not arrays, and the empty text
JsonNull == [kind |-> "null", items |-> <<>>]
JsonObject == [kind |-> "object", items |-> <<>>]
JsonNumber == [kind |-> "number", items |-> <<>>]
EmptyText == [kind |-> "empty", items |-> <<>>]

\* the value safeParse returns: [] for null or "", [] when JSON.parse throws,
\* else whatever JSON.parse returns (an array, null, an object, a number)
safeParseValue(raw) ==
    IF raw.kind \in {"absent", "empty", "malformed"}
    THEN [type |-> "array", items |-> <<>>]
    ELSE [type |-> raw.kind, items |-> raw.items]

\* safeParse where the handlers use it: the elements of the parsed array (the
\* page itself stores arrays only)
safeParse(raw) == IF raw.kind = "array" THEN raw.items ELSE <<>>

loadLocal(key) == safeParse(localStorage[key])

\* length of an image string, in quota units
imageSize(image) ==
    CASE image = "data:large" -> 2
      [] image = "data:small" -> 1
      [] OTHER -> 0

RECURSIVE arraySize(_)
arraySize(arr) ==
    IF arr = <<>> THEN 0 ELSE 1 + imageSize(Head(arr).image) + arraySize(Tail(arr))

textSize(raw) == IF raw.kind = "malformed" THEN 1 ELSE arraySize(raw.items)

\* localStorage.setItem(key, text) succeeds; otherwise it throws
\* QuotaExceededError and the stored text stays as it was
fits(store, key, text) == textSize(text) + textSize(store[otherKey(key)]) <= Quota

\* Array.prototype.filter(x => x.id !== id)
withoutId(arr, id) == SelectSeq(arr, LAMBDA x : x.id # id)

\* what a handler step did: the key it wrote, whether setItem threw for lack of
\* quota, how many times the write was retried, whether alert() was called,
\* whether an exception left the handler, whether the collection was saved
Outcome(h, k, quota, retries, alerted, threw, saved) ==
    [handler |-> h, key |-> k, quotaFailed |-> quota, retries |-> retries,
     alerted |-> alerted, threw |-> threw, saved |-> saved]

NoOutcome == Outcome("none", "", FALSE, 0, FALSE, FALSE, FALSE)

idlePanel ==
    /\ server = <<>> /\ net = {} /\ nextRid = 1 /\ nops = 0 /\ nfails = 0
    /\ products = <<>> /\ currentPage = 1 /\ totalPages = 0
    /\ currentEditId = NULL /\ currentDeleteId = NULL
    /\ editModalActive = FALSE /\ deleteModalActive = FALSE
    /\ searchProducts = "" /\ categoryFilter = ""
    /\ tbody = [state |-> "loading", rows |-> <<>>]
    /\ pagination = <<>> /\ notes = <<>>

idleLocal ==
    /\ localStorage = [k \in Keys |-> Absent]
    /\ now = 0
    /\ suspended = {}
    /\ nsubmits = 0
    /\ outcome = NoOutcome

NoResult == [kind |-> "none", id |-> ""]

idlePm == pm = [pc |-> "idle", productId |-> "", timer |-> "none", how |-> "",
                result |-> NoResult, product |-> NoResult, view |-> "none"]

NoCall == [fn |-> "none", args |-> <<>>, result |-> <<>>, pc |-> "done", log |-> <<>>]

idleCall == call = NoCall

(***************************************************************************)
(* Admin panel: the page after `new AdminPanel()`                          *)
(* (constructor, bindEvents, loadProducts up to its await)                 *)
(***************************************************************************)
InitPanel ==
    /\ page = "panel"
    /\ server \in { Catalogue(n) : n \in {0, InitialProducts} }
    /\ net = { Request(1, "load", NULL, NoForm) }
    /\ nextRid = 2
    /\ nops = 0
    /\ nfails = 0
    /\ products = <<>>
    /\ currentPage = 1
    /\ totalPages = 0
    /\ currentEditId = NULL
    /\ currentDeleteId = NULL
    /\ editModalActive = FALSE
    /\ deleteModalActive = FALSE
    /\ searchProducts = ""
    /\ categoryFilter = ""
    /\ tbody = [state |-> "loading", rows |-> <<>>]
    /\ pagination = <<>>
    /\ notes = <<>>
    /\ idleLocal
    /\ idlePm
    /\ idleCall

(***************************************************************************)
(* Admin panel: user events                                                *)
(* A modal is a full-page overlay, so the page under it takes no clicks.   *)
(***************************************************************************)
\* the row whose Edit / Delete buttons the model clicks: the last one rendered
clickableIds == IF tbody.rows = <<>> THEN {}
                ELSE { tbody.rows[Len(tbody.rows)] }

\* submit of #addProductForm: addProduct up to its await
addProduct(form) ==
    /\ page = "panel" /\ UNCHANGED <<page, localVars, pm, call>> /\ noModal
    /\ nops < MaxOps /\ Cardinality(net) < MaxInFlight
    /\ nops' = nops + 1
    /\ sendRequest("add", NULL, form)
    /\ notes' = <<>>
    /\ UNCHANGED <<nfails, server, products, currentPage, totalPages, currentEditId,
                   currentDeleteId, editModalActive, deleteModalActive,
                   searchProducts, categoryFilter, tbody, pagination>>

\* click on a row's Edit button
editProduct(productId) ==
    /\ page = "panel" /\ UNCHANGED <<page, localVars, pm, call>> /\ noModal
    /\ productId \in clickableIds
    /\ IF hasId(products, productId)
       THEN /\ currentEditId' = productId
            /\ editModalActive' = TRUE
       ELSE UNCHANGED <<currentEditId, editModalActive>>
    /\ notes' = <<>>
    /\ UNCHANGED <<nfails, server, net, nextRid, nops, products, currentPage, totalPages,
                   currentDeleteId, deleteModalActive, searchProducts,
                   categoryFilter, tbody, pagination>>

\* submit of #editProductForm (inside the edit modal): updateProduct up to its await
updateProduct(form) ==
    /\ page = "panel" /\ UNCHANGED <<page, localVars, pm, call>> /\ editModalActive
    /\ nops < MaxOps /\ Cardinality(net) < MaxInFlight
    /\ nops' = nops + 1
    /\ sendRequest("update", currentEditId, form)
    /\ notes' = <<>>
    /\ UNCHANGED <<nfails, server, products, currentPage, totalPages, currentEditId,
                   currentDeleteId, editModalActive, deleteModalActive,
                   searchProducts, categoryFilter, tbody, pagination>>

\* click on a row's Delete button
confirmDelete(productId) ==
    /\ page = "panel" /\ UNCHANGED <<page, localVars, pm, call>> /\ noModal
    /\ productId \in clickableIds
    /\ IF hasId(products, productId)
       THEN /\ currentDeleteId' = productId
            /\ deleteModalActive' = TRUE
       ELSE UNCHANGED <<currentDeleteId, deleteModalActive>>
    /\ notes' = <<>>
    /\ UNCHANGED <<nfails, server, net, nextRid, nops, products, currentPage, totalPages,
                   currentEditId, editModalActive, searchProducts,
                   categoryFilter, tbody, pagination>>

\* a deleteProduct that could be triggered without the delete modal being open
\* (sensitivity variant for C4)
deleteProduct_noModal ==
    /\ page = "panel" /\ UNCHANGED <<page, localVars, pm, call>>
    /\ nops < MaxOps /\ Cardinality(net) < MaxInFlight
    /\ nops' = nops + 1
    /\ sendRequest("delete", currentDeleteId, NoForm)
    /\ notes' = <<>>
    /\ UNCHANGED <<nfails, server, products, currentPage, totalPages, currentEditId,
                   currentDeleteId, editModalActive, deleteModalActive,
                   searchProducts, categoryFilter, tbody, pagination>>

\* click on #confirmDelete (inside the delete modal): deleteProduct up to its await
deleteProduct ==
    /\ page = "panel" /\ UNCHANGED <<page, localVars, pm, call>> /\ deleteModalActive
    /\ nops < MaxOps /\ Cardinality(net) < MaxInFlight
    /\ nops' = nops + 1
    /\ sendRequest("delete", currentDeleteId, NoForm)
    /\ notes' = <<>>
    /\ UNCHANGED <<nfails, server, products, currentPage, totalPages, currentEditId,
                   currentDeleteId, editModalActive, deleteModalActive,
                   searchProducts, categoryFilter, tbody, pagination>>

\* click on #closeEditModal or #cancelEdit
closeEditModal ==
    /\ page = "panel" /\ UNCHANGED <<page, localVars, pm, call>> /\ editModalActive
    /\ editModalActive' = FALSE
    /\ currentEditId' = NULL
    /\ notes' = <<>>
    /\ UNCHANGED <<nfails, server, net, nextRid, nops, products, currentPage, totalPages,
                   currentDeleteId, deleteModalActive, searchProducts,
                   categoryFilter, tbody, pagination>>

\* click on #closeDeleteModal or #cancelDelete
closeDeleteModal ==
    /\ page = "panel" /\ UNCHANGED <<page, localVars, pm, call>> /\ deleteModalActive
    /\ deleteModalActive' = FALSE
    /\ currentDeleteId' = NULL
    /\ notes' = <<>>
    /\ UNCHANGED <<nfails, server, net, nextRid, nops, products, currentPage, totalPages,
                   currentEditId, editModalActive, searchProducts,
                   categoryFilter, tbody, pagination>>

\* click on a modal's overlay: the listener only removes the class "active"
overlayClick ==
    /\ page = "panel" /\ UNCHANGED <<page, localVars, pm, call>>
    /\ \/ /\ editModalActive
          /\ editModalActive' = FALSE
          /\ UNCHANGED deleteModalActive
       \/ /\ deleteModalActive
          /\ deleteModalActive' = FALSE
          /\ UNCHANGED editModalActive
    /\ notes' = <<>>
    /\ UNCHANGED <<nfails, server, net, nextRid, nops, products, currentPage, totalPages,
                   currentEditId, currentDeleteId, searchProducts,
                   categoryFilter, tbody, pagination>>

\* a filter change that keeps the page that was current
\* (sensitivity variant for C21)
filterProducts_keepPage(searchValue, categoryValue) ==
    /\ page = "panel" /\ UNCHANGED <<page, localVars, pm, call>> /\ noModal
    /\ <<searchValue, categoryValue>> \in FilterInputs
    /\ (searchValue = searchProducts) # (categoryValue = categoryFilter)
    /\ searchProducts' = searchValue
    /\ categoryFilter' = categoryValue
    /\ currentPage' = currentPage
    /\ renderProducts(products, currentPage, searchValue, categoryValue)
    /\ notes' = <<>>
    /\ UNCHANGED <<nfails, server, net, nextRid, nops, products, currentEditId,
                   currentDeleteId, editModalActive, deleteModalActive>>

\* input in #searchProducts or change of #categoryFilter: filterProducts
filterProducts(searchValue, categoryValue) ==
    /\ page = "panel" /\ UNCHANGED <<page, localVars, pm, call>> /\ noModal
    /\ <<searchValue, categoryValue>> \in FilterInputs
    /\ (searchValue = searchProducts) # (categoryValue = categoryFilter)
    /\ searchProducts' = searchValue
    /\ categoryFilter' = categoryValue
    /\ currentPage' = 1
    /\ renderProducts(products, 1, searchValue, categoryValue)
    /\ notes' = <<>>
    /\ UNCHANGED <<nfails, server, net, nextRid, nops, products, currentEditId,
                   currentDeleteId, editModalActive, deleteModalActive>>

\* click on an enabled pagination control: goToPage(page baked into the control)
goToPage(target) ==
    /\ page = "panel" /\ UNCHANGED <<page, localVars, pm, call>> /\ noModal
    /\ \E i \in DOMAIN pagination :
          /\ pagination[i].kind \in {"prev", "page", "next"}
          /\ ~pagination[i].disabled
          /\ pagination[i].page = target
    /\ currentPage' = target
    /\ renderProducts(products, target, searchProducts, categoryFilter)
    /\ notes' = <<>>
    /\ UNCHANGED <<nfails, server, net, nextRid, nops, products, currentEditId,
                   currentDeleteId, editModalActive, deleteModalActive,
                   searchProducts, categoryFilter>>

(***************************************************************************)
(* Admin panel: the backend and the network (the environment of apiRequest)*)
(***************************************************************************)
replaceRequest(r, stage, resp) ==
    (net \ {r}) \cup { [r EXCEPT !.stage = stage, !.resp = resp] }

\* what the backend's table becomes when it accepts request r
serverAfter(r) ==
    CASE r.op = "add" ->
           Append(server, Product(maxId(server) + 1, r.body.name, r.body.category,
                                  r.body.stock, r.body.description))
      [] r.op = "update" ->
           [i \in DOMAIN server |->
              IF server[i].id = r.id
              THEN Product(r.id, r.body.name, r.body.category, r.body.stock,
                           r.body.description)
              ELSE server[i]]
      [] r.op = "delete" -> SelectSeq(server, LAMBDA row : row.id # r.id)
      [] OTHER -> server

\* the backend can serve r with a 2xx status
serverAccepts(r) ==
    CASE r.op \in {"update", "delete"} -> hasId(server, r.id)
      [] OTHER -> TRUE

\* the backend answers r with a 2xx status and a JSON body
serverResponds(r) ==
    /\ page = "panel" /\ UNCHANGED <<page, localVars, pm, call>>
    /\ r \in net /\ r.stage = "sent"
    /\ serverAccepts(r)
    /\ server' = serverAfter(r)
    /\ net' = replaceRequest(r, "ok", IF r.op = "load" THEN server ELSE <<>>)
    /\ UNCHANGED <<nfails, nextRid, nops, products, currentPage, totalPages, currentEditId,
                   currentDeleteId, editModalActive, deleteModalActive,
                   searchProducts, categoryFilter, tbody, pagination, notes>>

\* fetch rejects (network error) or the status is not 2xx; the table is unchanged
requestFails(r) ==
    /\ page = "panel" /\ UNCHANGED <<page, localVars, pm, call>>
    /\ r \in net /\ r.stage = "sent"
    /\ nfails < MaxFails
    /\ nfails' = nfails + 1
    /\ net' = replaceRequest(r, "fail", <<>>)
    /\ UNCHANGED <<server, nextRid, nops, products, currentPage, totalPages,
                   currentEditId, currentDeleteId, editModalActive,
                   deleteModalActive, searchProducts, categoryFilter, tbody,
                   pagination, notes>>

(***************************************************************************)
(* Admin panel: the handlers resume when their request settles             *)
(***************************************************************************)
\* loadProducts after its await
loadProductsResume(r) ==
    /\ r.op = "load"
    /\ IF r.stage = "ok"
       THEN /\ products' = r.resp
            /\ renderProducts(r.resp, currentPage, searchProducts, categoryFilter)
            /\ notes' = <<>>
       ELSE \* apiRequest's notification, showError, then loadMockProducts
            /\ products' = MockProducts
            /\ renderProducts(MockProducts, currentPage, searchProducts, categoryFilter)
            /\ notes' = << Note("Error connecting to server", "error") >>
    /\ net' = net \ {r}
    /\ UNCHANGED <<nfails, server, nextRid, nops, currentPage, currentEditId, currentDeleteId,
                   editModalActive, deleteModalActive, searchProducts, categoryFilter>>

\* addProduct after its await
addProductResume(r) ==
    /\ r.op = "add"
    /\ IF r.stage = "ok"
       THEN /\ notes' = << Note("Product added successfully", "success") >>
            /\ loadProductsStart(net \ {r})
       ELSE /\ notes' = failureNotes("Failed to add product")
            /\ net' = net \ {r}
            /\ UNCHANGED <<nextRid, tbody>>
    /\ UNCHANGED <<nfails, server, nops, products, currentPage, totalPages, currentEditId,
                   currentDeleteId, editModalActive, deleteModalActive,
                   searchProducts, categoryFilter, pagination>>

\* updateProduct after its await
updateProductResume(r) ==
    /\ r.op = "update"
    /\ IF r.stage = "ok"
       THEN /\ notes' = << Note("Product updated successfully", "success") >>
            /\ editModalActive' = FALSE
            /\ currentEditId' = NULL
            /\ loadProductsStart(net \ {r})
       ELSE /\ notes' = failureNotes("Failed to update product")
            /\ net' = net \ {r}
            /\ UNCHANGED <<nextRid, tbody, editModalActive, currentEditId>>
    /\ UNCHANGED <<nfails, server, nops, products, currentPage, totalPages,
                   currentDeleteId, deleteModalActive,
                   searchProducts, categoryFilter, pagination>>

\* deleteProduct after its await
deleteProductResume(r) ==
    /\ r.op = "delete"
    /\ IF r.stage = "ok"
       THEN /\ notes' = << Note("Product deleted successfully", "success") >>
            /\ deleteModalActive' = FALSE
            /\ currentDeleteId' = NULL
            /\ loadProductsStart(net \ {r})
       ELSE /\ notes' = failureNotes("Failed to delete product")
            /\ net' = net \ {r}
            /\ UNCHANGED <<nextRid, tbody, deleteModalActive, currentDeleteId>>
    /\ UNCHANGED <<nfails, server, nops, products, currentPage, totalPages,
                   currentEditId, editModalActive,
                   searchProducts, categoryFilter, pagination>>

\* a settled request's promise resolves or rejects and its handler runs on
settle(r) ==
    /\ page = "panel" /\ UNCHANGED <<page, localVars, pm, call>>
    /\ r \in net /\ r.stage \in {"ok", "fail"}
    /\ \/ loadProductsResume(r)
       \/ addProductResume(r)
       \/ updateProductResume(r)
       \/ deleteProductResume(r)

NextPanel ==
    \/ \E form \in FormInputs : addProduct(form)
    \/ \E id \in clickableIds : editProduct(id)
    \/ \E form \in FormInputs : updateProduct(form)
    \/ \E id \in clickableIds : confirmDelete(id)
    \/ deleteProduct
    \/ closeEditModal
    \/ closeDeleteModal
    \/ overlayClick
    \/ \E f \in FilterInputs : filterProducts(f[1], f[2])
    \/ \E target \in 1..(InitialProducts + MaxOps) : goToPage(target)
    \/ \E r \in net : serverResponds(r)
    \/ \E r \in net : requestFails(r)
    \/ \E r \in net : settle(r)

SpecPanel == InitPanel /\ [][NextPanel]_vars

(***************************************************************************)
(* Simple admin: the page after the script has run                         *)
(***************************************************************************)
NoCategory == [id |-> NULL, name |-> ""]       \* category: null
OldCategory == [id |-> 1, name |-> "Rings", image |-> ""]
OldProduct == [id |-> 1, title |-> "Ring", image |-> "", category |-> NoCategory]

InitLocal ==
    /\ page = "local"
    /\ localStorage \in
         { [k \in Keys |-> IF k = PRODUCTS_KEY THEN p ELSE c] :
             p \in { Absent, Malformed, stringify(<< OldProduct >>) },
             c \in { Absent, stringify(<< OldCategory >>) } }
    /\ now = 2
    /\ suspended = {}
    /\ nsubmits = 0
    /\ outcome = NoOutcome
    /\ idlePanel
    /\ idlePm
    /\ idleCall

\* what the forms hold when they are submitted: the text fields and the chosen file
ProductForms == {
    [title |-> "",      imageText |-> "",                file |-> "none"],
    [title |-> "Ring",  imageText |-> "",                file |-> "none"],
    [title |-> "Ring",  imageText |-> "images/ring.png", file |-> "large"],
    [title |-> "Chain", imageText |-> "",                file |-> "small"],
    [title |-> "Ring",  imageText |-> "",                file |-> "large"] }

CategoryForms == {
    [name |-> "Chains", imageText |-> "", file |-> "none"],
    [name |-> "",       imageText |-> "", file |-> "small"] }

\* the data URL a file converts to
dataUrl(file) == IF file = "large" THEN "data:large" ELSE "data:small"

\* the values #prod-category offers: "" and the stored categories' ids
\* (populateProductCategoryOptions runs on every localCategoriesUpdated)
categoryOptions == {NULL} \cup { loadLocal(CATEGORIES_KEY)[i].id : i \in DOMAIN loadLocal(CATEGORIES_KEY) }

\* loadLocal(CATEGORIES_KEY).find(c => String(c.id) === cid), as { id, name } or null
findCategory(cid) ==
    LET cats == loadLocal(CATEGORIES_KEY)
        hits == { i \in DOMAIN cats : cats[i].id = cid }
    IN  IF cid = NULL \/ hits = {} THEN NoCategory
        ELSE LET first == CHOOSE i \in hits : \A j \in hits : i <= j
             IN  [id |-> cats[first].id, name |-> cats[first].name]

\* saveLocal(key, arr) as the last write of a handler: the store after it
saveLocal(key, arr) ==
    IF fits(localStorage, key, stringify(arr))
    THEN [localStorage EXCEPT ![key] = stringify(arr)]
    ELSE localStorage

\* a product submit handler that writes its payload without reading what is
\* stored (sensitivity variant for C22)
finishProduct_noRead(title, image, cid) ==
    LET payload == [id |-> now, title |-> title, image |-> image,
                    category |-> findCategory(cid)]
        arr == << payload >>
        ok == fits(localStorage, PRODUCTS_KEY, stringify(arr))
    IN  /\ localStorage' = saveLocal(PRODUCTS_KEY, arr)
        /\ outcome' = Outcome("addProduct", PRODUCTS_KEY, ~ok, 0, FALSE, FALSE, ok)

\* the product submit handler from "read selected category" to its end:
\* the id is Date.now(); saveLocal's exception is caught and logged by the
\* handler's try/catch, which skips the refresh
finishProduct(title, image, cid) ==
    LET payload == [id |-> now, title |-> title, image |-> image,
                    category |-> findCategory(cid)]
        arr == << payload >> \o loadLocal(PRODUCTS_KEY)
        ok == fits(localStorage, PRODUCTS_KEY, stringify(arr))
    IN  /\ localStorage' = saveLocal(PRODUCTS_KEY, arr)
        /\ outcome' = Outcome("addProduct", PRODUCTS_KEY, ~ok, 0, FALSE, FALSE, ok)

\* the category submit handler from "const payload" to its end: nothing
\* catches saveLocal's exception, so it leaves the (async) handler
finishCategory(name, image) ==
    LET payload == [id |-> now, name |-> name, image |-> image]
        arr == << payload >> \o loadLocal(CATEGORIES_KEY)
        ok == fits(localStorage, CATEGORIES_KEY, stringify(arr))
    IN  /\ localStorage' = saveLocal(CATEGORIES_KEY, arr)
        /\ outcome' = Outcome("addCategory", CATEGORIES_KEY, ~ok, 0, FALSE, ~ok, ok)

Handler(hid, form, title, file) == [hid |-> hid, form |-> form, title |-> title, file |-> file]

\* submit of #addProductForm
submitProduct(f, cid) ==
    /\ page = "local" /\ UNCHANGED <<page, panelVars, pm, call>>
    /\ nsubmits < MaxSubmits
    /\ nsubmits' = nsubmits + 1
    /\ cid \in categoryOptions
    /\ IF f.title = ""
       THEN \* title is empty, product not added
            /\ outcome' = Outcome("addProduct", PRODUCTS_KEY, FALSE, 0, FALSE, FALSE, FALSE)
            /\ UNCHANGED <<localStorage, suspended>>
       ELSE IF f.imageText = "" /\ f.file # "none"
       THEN \* await convertFileForStorage(file)
            /\ suspended' = suspended \cup { Handler(nsubmits + 1, "product", f.title, f.file) }
            /\ outcome' = Outcome("addProduct", PRODUCTS_KEY, FALSE, 0, FALSE, FALSE, FALSE)
            /\ UNCHANGED localStorage
       ELSE /\ finishProduct(f.title, f.imageText, cid)
            /\ UNCHANGED suspended
    /\ UNCHANGED now

\* convertFileForStorage settles (with the data URL, or '' when both encoders
\* failed) and the product submit handler runs on
resumeProduct(h, converted, cid) ==
    /\ page = "local" /\ UNCHANGED <<page, panelVars, pm, call>>
    /\ h \in suspended /\ h.form = "product"
    /\ converted \in { dataUrl(h.file), "" }
    /\ cid \in categoryOptions
    /\ suspended' = suspended \ {h}
    /\ finishProduct(h.title, converted, cid)
    /\ UNCHANGED <<now, nsubmits>>

\* submit of #addCategoryForm
submitCategory(f) ==
    /\ page = "local" /\ UNCHANGED <<page, panelVars, pm, call>>
    /\ nsubmits < MaxSubmits
    /\ nsubmits' = nsubmits + 1
    /\ IF f.imageText = "" /\ f.file # "none"
       THEN \* await fileToDataURL(file)
            /\ suspended' = suspended \cup { Handler(nsubmits + 1, "category", f.name, f.file) }
            /\ outcome' = Outcome("addCategory", CATEGORIES_KEY, FALSE, 0, FALSE, FALSE, FALSE)
            /\ UNCHANGED localStorage
       ELSE /\ finishCategory(f.name, f.imageText)
            /\ UNCHANGED suspended
    /\ UNCHANGED now

\* fileToDataURL settles (a rejection is caught and leaves the image '') and
\* the category submit handler runs on
resumeCategory(h, converted) ==
    /\ page = "local" /\ UNCHANGED <<page, panelVars, pm, call>>
    /\ h \in suspended /\ h.form = "category"
    /\ converted \in { dataUrl(h.file), "" }
    /\ suspended' = suspended \ {h}
    /\ finishCategory(h.title, converted)
    /\ UNCHANGED <<now, nsubmits>>

\* click on the Delete button of a listed product (the list shows what is stored)
deleteProductClick(id) ==
    /\ page = "local" /\ UNCHANGED <<page, panelVars, pm, call>>
    /\ \E i \in DOMAIN loadLocal(PRODUCTS_KEY) : loadLocal(PRODUCTS_KEY)[i].id = id
    /\ LET keep == withoutId(loadLocal(PRODUCTS_KEY), id)
           ok == fits(localStorage, PRODUCTS_KEY, stringify(keep))
       IN  /\ localStorage' = saveLocal(PRODUCTS_KEY, keep)
           /\ outcome' = Outcome("deleteProduct", PRODUCTS_KEY, ~ok, 0, FALSE, ~ok, ok)
    /\ UNCHANGED <<now, suspended, nsubmits>>

\* a category delete that also drops the products of that category
\* (sensitivity variant for C19)
deleteCategoryClick_cascade(id) ==
    /\ page = "local" /\ UNCHANGED <<page, panelVars, pm, call>>
    /\ \E i \in DOMAIN loadLocal(CATEGORIES_KEY) : loadLocal(CATEGORIES_KEY)[i].id = id
    /\ localStorage' =
         [k \in Keys |->
            IF k = CATEGORIES_KEY
            THEN stringify(withoutId(loadLocal(CATEGORIES_KEY), id))
            ELSE stringify(SelectSeq(loadLocal(PRODUCTS_KEY),
                                     LAMBDA x : x.category.id # id))]
    /\ outcome' = Outcome("deleteCategory", CATEGORIES_KEY, FALSE, 0, FALSE, FALSE, TRUE)
    /\ UNCHANGED <<now, suspended, nsubmits>>

\* click on the Delete button of a listed category
deleteCategoryClick(id) ==
    /\ page = "local" /\ UNCHANGED <<page, panelVars, pm, call>>
    /\ \E i \in DOMAIN loadLocal(CATEGORIES_KEY) : loadLocal(CATEGORIES_KEY)[i].id = id
    /\ LET keep == withoutId(loadLocal(CATEGORIES_KEY), id)
           ok == fits(localStorage, CATEGORIES_KEY, stringify(keep))
       IN  /\ localStorage' = saveLocal(CATEGORIES_KEY, keep)
           /\ outcome' = Outcome("deleteCategory", CATEGORIES_KEY, ~ok, 0, FALSE, ~ok, ok)
    /\ UNCHANGED <<now, suspended, nsubmits>>

\* a millisecond passes: Date.now() returns the next value
tick ==
    /\ page = "local" /\ UNCHANGED <<page, panelVars, pm, call>>
    /\ now < MaxClock
    /\ now' = now + 1
    /\ outcome' = NoOutcome
    /\ UNCHANGED <<localStorage, suspended, nsubmits>>

NextLocal ==
    \/ \E f \in ProductForms, cid \in 0..MaxClock : submitProduct(f, cid)
    \/ \E h \in suspended, c \in {"", "data:small", "data:large"}, cid \in 0..MaxClock :
          resumeProduct(h, c, cid)
    \/ \E f \in CategoryForms : submitCategory(f)
    \/ \E h \in suspended, c \in {"", "data:small", "data:large"} : resumeCategory(h, c)
    \/ \E id \in 1..MaxClock : deleteProductClick(id)
    \/ \E id \in 1..MaxClock : deleteCategoryClick(id)
    \/ tick

SpecLocal == InitLocal /\ [][NextLocal]_vars

(***************************************************************************)
(* Simple admin: safeSaveLocal, which no handler calls, applied to a store *)
(***************************************************************************)
\* n records without image
unitItems(n) == [i \in 1..n |-> [id |-> i, image |-> ""]]

InitSafeSave ==
    /\ page = "safeSave"
    /\ localStorage \in
         { s \in [Keys -> { Absent, Malformed } \cup { stringify(unitItems(n)) : n \in 0..Quota }] :
             textSize(s[PRODUCTS_KEY]) + textSize(s[CATEGORIES_KEY]) <= Quota }
    /\ now = 0
    /\ suspended = {}
    /\ nsubmits = 0
    /\ outcome = NoOutcome
    /\ idlePanel
    /\ idlePm
    /\ idleCall

\* the store after localStorage.setItem(key, text), or the same store if it throws
setItem(store, key, text) ==
    IF fits(store, key, text) THEN [store EXCEPT ![key] = text] ELSE store

\* existing.slice(0, Math.max(1, Math.floor(existing.length / 2)))
keepHalf(existing) ==
    LET half == Len(existing) \div 2
    IN  slice(existing, 0, IF half > 1 THEN half ELSE 1)

\* the collection safeSaveLocal(key, ...) truncates after a quota failure:
\* `existing` is read from `key` itself (the constant `other` is computed but not used)
truncatedKey(key) == key

safeSaveLocal(key, arr) ==
    /\ page = "safeSave" /\ UNCHANGED <<page, panelVars, pm, call>>
    /\ LET text == stringify(arr)
           victim == truncatedKey(key)
           existing == safeParse(localStorage[victim])
           keep == stringify(keepHalf(existing))
           truncated == setItem(localStorage, victim, keep)
       IN  IF fits(localStorage, key, text)
           THEN \* the first setItem succeeds: return true
                /\ localStorage' = setItem(localStorage, key, text)
                /\ outcome' = Outcome("safeSaveLocal", key, FALSE, 0, FALSE, FALSE, TRUE)
           ELSE IF Len(existing) > 2 /\ fits(localStorage, victim, keep)
           THEN \* the truncated array is stored, then the write is tried again;
                \* if it throws again the inner catch ignores it: alert, return false
                IF fits(truncated, key, text)
                THEN /\ localStorage' = setItem(truncated, key, text)
                     /\ outcome' = Outcome("safeSaveLocal", key, TRUE, 1, FALSE, FALSE, TRUE)
                ELSE /\ localStorage' = truncated
                     /\ outcome' = Outcome("safeSaveLocal", key, TRUE, 1, TRUE, FALSE, FALSE)
           ELSE \* nothing to truncate: alert, return false
                /\ UNCHANGED localStorage
                /\ outcome' = Outcome("safeSaveLocal", key, TRUE, 0, TRUE, FALSE, FALSE)
    /\ UNCHANGED <<now, suspended, nsubmits>>

NextSafeSave == \E key \in Keys, n \in 0..MaxArray : safeSaveLocal(key, unitItems(n))

SpecSafeSave == InitSafeSave /\ [][NextSafeSave]_vars

(***************************************************************************)
(* Product page: ProductManager                                            *)
(***************************************************************************)
TIMEOUT_MS == 1500

\* the id parameter of the page's URL ("" when it has none)
UrlIds == { "", "1", "2", "4", "5", "constructor" }

\* getProductId: the parameter, or 1 when it is missing or empty
getProductId(param) == IF param = "" THEN "1" ELSE param

\* the keys of the mockProducts literal, and keys every object inherits
MockKeys == { "1", "2", "3", "4" }
InheritedKeys == { "constructor", "toString", "valueOf", "hasOwnProperty", "__proto__" }

\* mockProducts[key]: an own entry, an inherited member of Object.prototype,
\* or undefined
mockLookup(key) ==
    IF key \in MockKeys THEN [kind |-> "mock", id |-> key]
    ELSE IF key \in InheritedKeys THEN [kind |-> "inherited", id |-> key]
    ELSE [kind |-> "undefined", id |-> ""]

\* getMockProduct: mockProducts[this.productId] || mockProducts[1]
getMockProduct(productId) ==
    IF mockLookup(productId).kind # "undefined" THEN mockLookup(productId)
    ELSE mockLookup("1")

\* the JSON bodies the backend answers with: the product, { product: ... }, null
ApiBodies == { "api", "api-wrapped", "api-null" }

\* the page after `new ProductManager()`: getProductId, showLoading, and
\* apiRequest up to `await fetch`, with the abort timer armed
InitProduct ==
    /\ page = "product"
    /\ pm \in { [pc |-> "fetch", productId |-> getProductId(param), timer |-> "armed",
                 how |-> "", result |-> NoResult, product |-> NoResult,
                 view |-> "loading"] : param \in UrlIds }
    /\ idlePanel
    /\ idleLocal
    /\ idleCall

\* apiRequest's catch: the request resolves with getMockProduct()
fallback(cause, timer) ==
    pm' = [pm EXCEPT !.pc = "resolved", !.how = cause, !.timer = timer,
                     !.result = getMockProduct(pm.productId)]

\* fetch resolves with a response: clearTimeout, then the status check
fetchResolves(ok) ==
    /\ page = "product" /\ UNCHANGED <<page, panelVars, localVars, call>>
    /\ pm.pc = "fetch"
    /\ IF ok
       THEN pm' = [pm EXCEPT !.pc = "json", !.timer = "cleared"]
       ELSE fallback("status", "cleared")

\* fetch rejects with a network error (the timer stays armed)
fetchRejects ==
    /\ page = "product" /\ UNCHANGED <<page, panelVars, localVars, call>>
    /\ pm.pc = "fetch"
    /\ fallback("network", pm.timer)

\* TIMEOUT_MS pass: controller.abort(); a fetch still pending rejects
timeoutFires ==
    /\ page = "product" /\ UNCHANGED <<page, panelVars, localVars, call>>
    /\ pm.timer = "armed"
    /\ IF pm.pc = "fetch"
       THEN fallback("timeout", "fired")
       ELSE pm' = [pm EXCEPT !.timer = "fired"]

\* response.json() settles: with the parsed body, or it rejects
jsonSettles(body) ==
    /\ page = "product" /\ UNCHANGED <<page, panelVars, localVars, call>>
    /\ pm.pc = "json"
    /\ IF body = "invalid"
       THEN fallback("json", pm.timer)
       ELSE pm' = [pm EXCEPT !.pc = "resolved",
                             !.result = [kind |-> body, id |-> pm.productId]]

\* renderProduct(product) returns normally (an inherited member has no price:
\* price.toFixed throws)
renders(product) == product.kind \in { "api", "mock" }

\* loadProduct after `await this.apiRequest(...)`: data.product || data, then
\* renderProduct; its catch calls loadMockProduct
loadProductResume ==
    /\ page = "product" /\ UNCHANGED <<page, panelVars, localVars, call>>
    /\ pm.pc = "resolved"
    /\ LET data == pm.result
           product == IF data.kind = "api-wrapped" THEN [kind |-> "api", id |-> data.id]
                      ELSE data
           threw == data.kind = "api-null" \/ ~renders(product)
           mock == getMockProduct(pm.productId)
       IN  IF ~threw
           THEN pm' = [pm EXCEPT !.pc = "done", !.product = product, !.view = "product"]
           ELSE pm' = [pm EXCEPT !.pc = "done", !.product = mock,
                                 !.view = IF renders(mock) THEN "product" ELSE "crash"]

NextProduct ==
    \/ \E ok \in BOOLEAN : fetchResolves(ok)
    \/ fetchRejects
    \/ timeoutFires
    \/ \E body \in ApiBodies \cup {"invalid"} : jsonSettles(body)
    \/ loadProductResume

SpecProduct == InitProduct /\ [][NextProduct]_vars

(***************************************************************************)
(* Simple admin: image conversion (convertFileForStorage and its encoders) *)
(***************************************************************************)
\* a threshold of 200 decimal kilobytes (sensitivity variant for C12)
THRESHOLD_decimal == 200 * 1000

\* threshold in bytes (200 KB)
THRESHOLD == 200 * 1024

\* image widths and heights of the files handed to the conversion
Dims == { 1, 3, 7, 999, 1000, 1001, 1200, 2000, 3000 }

\* file sizes in bytes
FileSizes == { 0, 50 * 1024, THRESHOLD - 1, THRESHOLD, THRESHOLD + 1, 500 * 1024 }

NoFile == [size |-> -1, width |-> 0, height |-> 0]      \* no file chosen (undefined)

Files == [size : FileSizes, width : Dims, height : Dims]

\* JavaScript values the conversion can return or reject with
EmptyString == [type |-> "string", kind |-> "empty", width |-> 0, height |-> 0, size |-> 0]
RawDataUrl(file) ==
    [type |-> "string", kind |-> "raw", width |-> file.width, height |-> file.height,
     size |-> file.size]
JpegDataUrl(w, h, quality) ==
    [type |-> "string", kind |-> "jpeg", width |-> w, height |-> h, size |-> quality]

\* the encoder invocations convertFileForStorage makes
RawAttempt == [encoder |-> "fileToDataURL", maxWidth |-> 0, maxHeight |-> 0, quality |-> 0]
ResizeAttempt(maxWidth, maxHeight, quality) ==
    [encoder |-> "resizeImageFileToDataURL", maxWidth |-> maxWidth,
     maxHeight |-> maxHeight, quality |-> quality]

\* the smaller of two fractions <<numerator, denominator>> (positive denominators)
minFraction(a, b) == IF a[1] * b[2] <= b[1] * a[2] THEN a ELSE b

\* a ratio that is not capped at 1 (sensitivity variant for C13)
ratio_noCap(w, h, maxWidth, maxHeight) == minFraction(<<maxWidth, w>>, <<maxHeight, h>>)

\* Math.min(1, maxWidth / w, maxHeight / h), as a fraction
ratio(w, h, maxWidth, maxHeight) ==
    minFraction(<<1, 1>>, minFraction(<<maxWidth, w>>, <<maxHeight, h>>))

\* Math.round(x * r[1] / r[2]): the nearest integer, a half going up; the
\* product is computed in floating point, so when it is exactly a half either
\* neighbour can come out
round(x, r) ==
    LET num == 2 * x * r[1] + r[2]
        den == 2 * r[2]
    IN  IF num % den = 0 THEN { num \div den, (num \div den) - 1 }
        ELSE { num \div den }

\* the canvas sizes img.onload can choose for an image of w by h
canvasSizes(w, h, maxWidth, maxHeight) ==
    LET r == ratio(w, h, maxWidth, maxHeight)
    IN  round(w, r) \X round(h, r)

\* a call that is about to be made
Pending(fn, args) == [fn |-> fn, args |-> args, result |-> <<>>, pc |-> "start", log |-> <<>>]

\* convertFileForStorage(file), up to its first await
convertFileForStorage ==
    /\ page = "calls" /\ UNCHANGED <<page, panelVars, localVars, pm>>
    /\ call.fn = "convertFileForStorage" /\ call.pc = "start"
    /\ LET file == call.args[1]
           c == [call EXCEPT !.pc = "done"]
       IN  IF file = NoFile
           THEN call' = [c EXCEPT !.result = EmptyString]
           ELSE IF file.size > THRESHOLD
           THEN call' = [c EXCEPT !.pc = "resize:read",
                                  !.log = <<ResizeAttempt(1000, 1000, 7)>>]
           ELSE call' = [c EXCEPT !.pc = "raw:try", !.log = <<RawAttempt>>]

\* what a rejected promise carries
Rejection == [type |-> "error", kind |-> "rejected", width |-> 0, height |-> 0, size |-> 0]

\* a catch that lets the failure reach the caller (sensitivity variant for C11)
convertCatch_rethrow == call' = [call EXCEPT !.pc = "done", !.result = Rejection]

\* convertFileForStorage's catch: fall back to fileToDataURL(file)
convertCatch == call' = [call EXCEPT !.pc = "raw:catch", !.log = Append(@, RawAttempt)]

\* resizeImageFileToDataURL: the FileReader loads the file or fails
readerSettles(ok) ==
    /\ page = "calls" /\ UNCHANGED <<page, panelVars, localVars, pm>>
    /\ call.fn = "convertFileForStorage" /\ call.pc = "resize:read"
    /\ IF ok THEN call' = [call EXCEPT !.pc = "resize:decode"] ELSE convertCatch

\* resizeImageFileToDataURL: img.onerror, or img.onload (scale, draw, encode)
imageSettles(decoded, encoded) ==
    /\ page = "calls" /\ UNCHANGED <<page, panelVars, localVars, pm>>
    /\ call.fn = "convertFileForStorage" /\ call.pc = "resize:decode"
    /\ LET file == call.args[1]
           attempt == call.log[Len(call.log)]
       IN  IF decoded /\ encoded
           THEN \E wh \in canvasSizes(file.width, file.height,
                                      attempt.maxWidth, attempt.maxHeight) :
                   call' = [call EXCEPT !.pc = "done",
                               !.result = JpegDataUrl(wh[1], wh[2], attempt.quality)]
           ELSE convertCatch

\* fileToDataURL: the FileReader loads the file or fails
rawSettles(ok) ==
    /\ page = "calls" /\ UNCHANGED <<page, panelVars, localVars, pm>>
    /\ call.fn = "convertFileForStorage" /\ call.pc \in {"raw:try", "raw:catch"}
    /\ IF ok THEN call' = [call EXCEPT !.pc = "done", !.result = RawDataUrl(call.args[1])]
       ELSE IF call.pc = "raw:try" THEN convertCatch
       ELSE call' = [call EXCEPT !.pc = "done", !.result = EmptyString]

NextConvert ==
    \/ convertFileForStorage
    \/ \E ok \in BOOLEAN : readerSettles(ok)
    \/ \E decoded, encoded \in BOOLEAN : imageSettles(decoded, encoded)
    \/ \E ok \in BOOLEAN : rawSettles(ok)

(***************************************************************************)
(* Helpers called on their own, with arguments from small sets             *)
(***************************************************************************)
\* the pending call of a helper that has no await returns
returns(result) == call' = [call EXCEPT !.pc = "done", !.result = result]

\* product lists handed to the list helpers
ProductLists ==
    { <<>>, MockProducts, Catalogue(3),
      << MockProducts[3], MockProducts[2], MockProducts[3], MockProducts[1] >> }

\* texts typed into the search box
SearchTerms == { "", "ring", "RING", "Gold", "pearl", "Chain" }

\* values of the category select
CategoryValues == { "", "rings", "necklaces", "earrings" }

\* this.getFilteredProducts() with the given list, search text and category
callGetFilteredProducts ==
    /\ page = "calls" /\ UNCHANGED <<page, panelVars, localVars, pm>>
    /\ call.fn = "getFilteredProducts" /\ call.pc = "start"
    /\ returns(getFilteredProducts(call.args[1], call.args[2], call.args[3]))

\* this.getPaginatedProducts(products) with this.currentPage = cur
callGetPaginatedProducts ==
    /\ page = "calls" /\ UNCHANGED <<page, panelVars, localVars, pm>>
    /\ call.fn = "getPaginatedProducts" /\ call.pc = "start"
    /\ returns(getPaginatedProducts(call.args[1], call.args[2]))

\* the controls renderPagination(totalItems) writes with this.currentPage = cur
callRenderPagination ==
    /\ page = "calls" /\ UNCHANGED <<page, panelVars, localVars, pm>>
    /\ call.fn = "renderPagination" /\ call.pc = "start"
    /\ returns(paginationControls(ceilDiv(call.args[1], itemsPerPage), call.args[2]))

\* a classification with strict comparisons (sensitivity variant for C18)
getStockClass_strict(stock) ==
    IF stock < 5 THEN "stock-low" ELSE IF stock < 20 THEN "stock-medium" ELSE "stock-high"

\* getStockClass
getStockClass(stock) ==
    IF stock <= 5 THEN "stock-low" ELSE IF stock <= 20 THEN "stock-medium" ELSE "stock-high"

callGetStockClass ==
    /\ page = "calls" /\ UNCHANGED <<page, panelVars, localVars, pm>>
    /\ call.fn = "getStockClass" /\ call.pc = "start"
    /\ returns(getStockClass(call.args[1]))

\* loadLocal(key), with the value it returns
callLoadLocal ==
    /\ page = "calls" /\ UNCHANGED <<page, panelVars, localVars, pm>>
    /\ call.fn = "loadLocal" /\ call.pc = "start"
    /\ returns(safeParseValue(localStorage[call.args[1]]))

NextHelpers ==
    \/ callGetFilteredProducts
    \/ callGetPaginatedProducts
    \/ callRenderPagination
    \/ callGetStockClass
    \/ callLoadLocal

\* texts another script or an earlier version of the page may have stored
StoredTexts ==
    { Absent, EmptyText, Malformed, JsonNull, JsonObject, JsonNumber,
      stringify(<<>>), stringify(<<OldProduct>>) }

\* the calls made: one per behaviour, its arguments drawn from the sets above
InitCalls ==
    /\ page = "calls"
    /\ now = 0 /\ suspended = {} /\ nsubmits = 0 /\ outcome = NoOutcome
    /\ idlePanel
    /\ idlePm
    /\ \/ /\ localStorage = [k \in Keys |-> Absent]
          /\ \/ \E file \in Files \cup {NoFile} :
                   call = Pending("convertFileForStorage", <<file>>)
             \/ \E prods \in ProductLists, s \in SearchTerms, c \in CategoryValues :
                   call = Pending("getFilteredProducts", <<prods, s, c>>)
             \/ \E n \in 0..MaxItems, cur \in 1..MaxPages :
                   /\ cur <= ceilDiv(n, itemsPerPage)
                   /\ call = Pending("getPaginatedProducts", <<Catalogue(n), cur>>)
             \/ \E pages \in 0..MaxPages, cur \in 1..MaxPages :
                   /\ cur <= pages \/ cur = 1
                   /\ call = Pending("renderPagination", <<pages * itemsPerPage, cur>>)
             \/ \E stock \in (0 - MaxStock)..MaxStock :
                   call = Pending("getStockClass", <<stock>>)
       \/ /\ localStorage \in [Keys -> StoredTexts]
          /\ \E key \in Keys : call = Pending("loadLocal", <<key>>)

NextCalls == NextConvert \/ NextHelpers

SpecCalls == InitCalls /\ [][NextCalls]_vars

(***************************************************************************)
(* The three pages                                                         *)
(***************************************************************************)
Init == InitPanel \/ InitLocal \/ InitProduct

Next == NextPanel \/ NextLocal \/ NextProduct

Spec == Init /\ [][Next]_vars

(***************************************************************************)
(* Properties                                                              *)
(***************************************************************************)
\* the products the table would list under the current search and filter
filteredNow == getFilteredProducts(products, searchProducts, categoryFilter)

\* C1: once products are listed, the current page lies in [1, totalPages],
\* totalPages being ceil(filteredCount / pageSize) of the list as filtered now
C1_CurrentPageInRange ==
    (page = "panel" /\ filteredNow # <<>>) =>
        /\ currentPage >= 1
        /\ currentPage <= ceilDiv(Len(filteredNow), itemsPerPage)

\* a step that changes the search text or the category filter
filterChanged == page = "panel" /\ <<searchProducts, categoryFilter>>' # <<searchProducts, categoryFilter>>

\* C2: after every filter/search change, this.totalPages equals
\* ceil(filteredCount / pageSize) of the filtered list, also when it is empty
C2_TotalPagesIsCeil ==
    [][filterChanged =>
         totalPages' = ceilDiv(Len(getFilteredProducts(products', searchProducts', categoryFilter')),
                               itemsPerPage)]_vars

\* C3: a modal that is not open has no pending id
C3_ClearedWhenClosed ==
    page = "panel" =>
        /\ ~editModalActive => currentEditId = NULL
        /\ ~deleteModalActive => currentDeleteId = NULL

\* a DELETE request leaves the admin panel in this step
deleteIssued(r) == r \in net' /\ r \notin net /\ r.op = "delete" /\ r.stage = "sent"

\* the admin panel sends DELETE only for the pending id of the open delete
\* modal, and only confirmDelete (for a listed product, opening the modal)
\* sets a pending id
panelDeleteConfirmed ==
    /\ \A r \in net' : deleteIssued(r) =>
          deleteModalActive /\ currentDeleteId # NULL /\ r.id = currentDeleteId
    /\ (currentDeleteId' # currentDeleteId /\ currentDeleteId' # NULL) =>
          deleteModalActive' /\ hasId(products, currentDeleteId')

\* the simple admin drops a stored product only while a delete modal holding
\* a pending id is open (the page has no such modal: the variables stay idle)
localDeleteConfirmed ==
    (page = "local" /\ outcome'.handler = "deleteProduct" /\ outcome'.saved) =>
        deleteModalActive /\ currentDeleteId # NULL

\* C4 (as amended): in the API-backed admin panel a DELETE request is issued
\* only for the id that confirmDelete stored when it opened the delete modal,
\* while that modal is open and the id has not been cleared
C4_PanelDeleteNeedsConfirm == [][panelDeleteConfirmed]_vars

\* C4 (as claimed): every removal, a DELETE request or a record dropped from the
\* local store, follows a confirmDelete step that opened the modal for that id
C4_EveryDeleteNeedsConfirm == [][panelDeleteConfirmed /\ localDeleteConfirmed]_vars

\* C4 witness: a DELETE for the pending id of the open delete modal is in flight
C4_Witness ==
    /\ page = "panel" /\ deleteModalActive
    /\ \E r \in net : r.op = "delete" /\ r.stage = "sent" /\ r.id = currentDeleteId

\* an add, update or delete request of the panel fails in this step
panelFailure(r) == r \in net /\ r \notin net' /\ r.stage = "fail" /\ r.op # "load"

\* C5: a failed add, edit or delete shows an error notification and leaves
\* the product list, the stored collections, the current page and the pending
\* ids as they were
C5_FailureLeavesState ==
    [][/\ (page = "panel" /\ \E r \in net : panelFailure(r)) =>
            /\ \E i \in DOMAIN notes' : notes'[i].type = "error"
            /\ UNCHANGED <<products, currentPage, currentEditId, currentDeleteId>>
       /\ (page = "local" /\ outcome'.quotaFailed) =>
            /\ outcome'.alerted
            /\ UNCHANGED localStorage]_vars

\* C6: no two update/delete requests for the same record are in flight
C6_OneRequestPerRecord ==
    page = "panel" =>
        \A r1, r2 \in net :
            (r1.op \in {"update", "delete"} /\ r2.op \in {"update", "delete"}
             /\ r1.id = r2.id) => r1 = r2

\* C7: when the first write of collection K fails for lack of quota (here with
\* more than two records stored under K), the other collection's stored array
\* is cut to its first half, the write of K is retried exactly once, and K
\* itself is either written or left as it was
C7_TruncatesOtherCollection ==
    [][(/\ page = "safeSave"
        /\ outcome'.handler = "safeSaveLocal" /\ outcome'.quotaFailed
        /\ Len(safeParse(localStorage[outcome'.key])) > 2) =>
         LET K == outcome'.key
             O == otherKey(K)
         IN  /\ safeParse(localStorage'[O]) = keepHalf(safeParse(localStorage[O]))
             /\ outcome'.retries = 1
             /\ (outcome'.saved \/ localStorage'[K] = localStorage[K])]_vars

\* C8: a handler's write that fails for lack of quota is caught, retried once
\* after a remediation, and ends saved or in an alert
C8_QuotaFailureHandled ==
    (page = "local" /\ outcome.quotaFailed) =>
        /\ ~outcome.threw
        /\ outcome.retries = 1
        /\ (outcome.saved \/ outcome.alerted)

uniqueIds(arr) == \A i, j \in DOMAIN arr : arr[i].id = arr[j].id => i = j

\* C9: no two products of the collection share an id
C9_UniqueProductIds ==
    /\ page = "local" => uniqueIds(loadLocal(PRODUCTS_KEY))
    /\ page = "panel" => uniqueIds(products)

\* C10: after a network error, a non-2xx status or a timeout the request has
\* resolved with the mock entry keyed by the product id, else with product 1
C10_FallbackIsMockEntry ==
    (page = "product" /\ pm.how \in {"network", "status", "timeout"}) =>
        /\ pm.pc \in {"resolved", "done"}
        /\ pm.result = [kind |-> "mock",
                        id |-> IF pm.productId \in MockKeys THEN pm.productId ELSE "1"]

\* a conversion is in progress or has returned
converting == page = "calls" /\ call.fn = "convertFileForStorage"

\* C11: the conversion returns a string whatever the encoders do: a failure of
\* the resize path leads to raw encoding of the same file, a failure of that
\* raw encoding leads to the empty string, and nothing else is ever returned
C11_ConversionNeverFails ==
    [][(converting /\ call.pc # "done") =>
          /\ call'.args = call.args
          /\ call'.pc = "done" => call'.result.type = "string"
          /\ (call.pc \in {"resize:read", "resize:decode"} /\ call'.pc # "resize:decode"
              /\ call'.pc # "done") =>
                 call'.pc = "raw:catch" /\ call'.log = Append(call.log, RawAttempt)
          /\ (call.pc = "raw:catch" /\ call'.result.type = "string"
              /\ call'.result.kind # "raw") => call'.result = EmptyString]_vars

\* C11 witness: the resize path failed, raw encoding failed too, "" was returned
C11_Witness ==
    /\ converting /\ call.pc = "done" /\ call.result = EmptyString
    /\ Len(call.log) = 2 /\ call.log[1].encoder = "resizeImageFileToDataURL"

\* C12: a file of at most 204800 bytes is first handed to fileToDataURL, a
\* larger one first to resizeImageFileToDataURL with bounds 1000x1000 and
\* quality 0.7
C12_PathBySizeAlone ==
    (converting /\ call.pc # "start" /\ call.args[1] # NoFile) =>
        /\ call.log # <<>>
        /\ call.log[1] = IF call.args[1].size <= 204800
                         THEN RawAttempt
                         ELSE ResizeAttempt(1000, 1000, 7)

\* C12 witness: a file of exactly 204800 bytes was encoded directly
C12_Witness ==
    /\ converting /\ call.pc = "done" /\ call.args[1] # NoFile
    /\ call.args[1].size = 204800 /\ call.result.kind = "raw"

\* C13: the resized image is never larger than the source, fits within
\* 1000x1000, and each side is the source's side times min(1, 1000/w, 1000/h)
\* to within half a pixel
C13_NeverUpscales ==
    (converting /\ call.pc = "done" /\ call.result.kind = "jpeg") =>
        LET w == call.args[1].width
            h == call.args[1].height
            m == IF w > 1000 \/ h > 1000 THEN (IF w > h THEN w ELSE h) ELSE 1000
            out == call.result
            dist(a, b) == IF a > b THEN a - b ELSE b - a
        IN  /\ out.width <= w /\ out.height <= h
            /\ out.width <= 1000 /\ out.height <= 1000
            /\ 2 * dist(out.width * m, w * 1000) <= m
            /\ 2 * dist(out.height * m, h * 1000) <= m

\* C13 witness: an image wider than 1000 was scaled down
C13_Witness ==
    /\ converting /\ call.pc = "done" /\ call.result.kind = "jpeg"
    /\ call.args[1].width = 3000 /\ call.result.width = 1000

\* the names of a product list, in order
names(prods) == [i \in DOMAIN prods |-> prods[i].name]

\* the search for "ring" over the four sample products, no category chosen
ringSearch ==
    /\ page = "calls" /\ call.fn = "getFilteredProducts" /\ call.pc = "done"
    /\ call.args = <<MockProducts, "ring", "">>

\* C14 (as amended): over the four sample products and with no category, the
\* search for "ring" yields two matches, "Diamond Ring" and "Pearl Earrings"
C14_RingMatchesTwo == ringSearch => names(call.result) = <<"Diamond Ring", "Pearl Earrings">>

\* C14 (as claimed): that search yields exactly one match, "Diamond Ring"
C14_RingMatchesOne == ringSearch => names(call.result) = <<"Diamond Ring">>

\* C14 witness: the search for "ring" has been made
C14_Witness == ringSearch /\ Len(call.result) = 2

\* the filter as the claim words it, on the characters of the strings
keptByFilter(p, term, category) ==
    /\ \/ term = ""
       \/ includes(toLowerCase(chars(p.name)), toLowerCase(chars(term)))
       \/ includes(toLowerCase(chars(p.description)), toLowerCase(chars(term)))
    /\ category = "" \/ p.category = category

\* C15: the filtered result is exactly the products, in their original order,
\* whose lower-cased name or description contains the lower-cased term (or the
\* term is empty) and whose category equals the filter (or the filter is empty)
C15_FilterSemantics ==
    (page = "calls" /\ call.fn = "getFilteredProducts" /\ call.pc = "done") =>
        call.result = SelectSeq(call.args[1],
                                LAMBDA p : keptByFilter(p, call.args[2], call.args[3]))

\* C15 witness: a term in another case matched through the description only,
\* and the category filter removed one of the matches
C15_Witness ==
    /\ page = "calls" /\ call.pc = "done" /\ call.fn = "getFilteredProducts"
    /\ call.args = <<Catalogue(3), "Gold", "rings">>
    /\ call.result = << CatalogueRow(1), CatalogueRow(3) >>

\* the page slices 1..n of a list, one after the other
RECURSIVE pagesUpTo(_, _)
pagesUpTo(prods, n) ==
    IF n = 0 THEN <<>> ELSE pagesUpTo(prods, n - 1) \o getPaginatedProducts(prods, n)

\* C16: the slice of page p holds the items at indices [(p-1)*10, p*10) of the
\* list, never more than 10, and the slices of pages 1..totalPages, one after
\* the other, are the list itself
C16_SlicesPartitionList ==
    (page = "calls" /\ call.fn = "getPaginatedProducts" /\ call.pc = "done") =>
        LET prods == call.args[1]
            p == call.args[2]
            first == (p - 1) * 10 + 1
            last == IF p * 10 < Len(prods) THEN p * 10 ELSE Len(prods)
        IN  /\ Len(call.result) <= 10
            /\ Len(call.result) = last - first + 1
            /\ \A i \in 1..Len(call.result) : call.result[i] = prods[first + i - 1]
            /\ pagesUpTo(prods, (Len(prods) + 9) \div 10) = prods

\* C16 witness: the last, shorter page of a list of 25 has been sliced
C16_Witness ==
    /\ page = "calls" /\ call.pc = "done" /\ call.fn = "getPaginatedProducts"
    /\ Len(call.args[1]) = 25 /\ call.args[2] = 3 /\ Len(call.result) = 5

\* the controls of one kind among those rendered
controlsOf(controls, kind) == { i \in DOMAIN controls : controls[i].kind = kind }

\* C17: for totalPages > 1 the controls hold one button for page 1, for the
\* last page and for each page within 2 of the current one, none for any other
\* page, and one ellipsis inside each maximal run of pages without a button
C17_WindowAndEllipses ==
    (page = "calls" /\ call.fn = "renderPagination" /\ call.pc = "done"
     /\ call.args[1] > 10) =>
        LET total == call.args[1] \div 10
            cur == call.args[2]
            controls == call.result
            shown == { i \in 1..total : i = 1 \/ i = total \/ (i >= cur - 2 /\ i <= cur + 2) }
            hidden == (1..total) \ shown
            runStarts == { a \in hidden : (a - 1) \notin hidden }
            runOf(a) == { b \in hidden : b >= a /\ \A c \in a..b : c \in hidden }
        IN  /\ \A i \in shown :
                 Cardinality({ k \in controlsOf(controls, "page") : controls[k].page = i }) = 1
            /\ \A k \in controlsOf(controls, "page") : controls[k].page \in shown
            /\ \A a \in runStarts :
                 Cardinality({ k \in controlsOf(controls, "ellipsis") :
                                  controls[k].page \in runOf(a) }) = 1
            /\ Cardinality(controlsOf(controls, "ellipsis")) = Cardinality(runStarts)
            /\ \A k, l \in controlsOf(controls, "page") \cup controlsOf(controls, "ellipsis") :
                 k < l => controls[k].page < controls[l].page

\* C17 witness: page 6 of 12, with hidden pages on both sides
C17_Witness ==
    /\ page = "calls" /\ call.pc = "done" /\ call.fn = "renderPagination" /\ call.args = <<120, 6>>
    /\ Cardinality(controlsOf(call.result, "ellipsis")) = 2

\* C18: the stock class is low up to 5, medium from 6 to 20, high above 20
C18_StockClassBySize ==
    (page = "calls" /\ call.fn = "getStockClass" /\ call.pc = "done") =>
        LET s == call.args[1]
        IN  call.result = IF s <= 5 THEN "stock-low"
                          ELSE IF s >= 6 /\ s <= 20 THEN "stock-medium"
                          ELSE "stock-high"

\* C18 witness: a stock of 20 is classified medium
C18_Witness ==
    /\ page = "calls" /\ call.fn = "getStockClass" /\ call.pc = "done"
    /\ call.args = <<20>> /\ call.result = "stock-medium"

\* the ids of the stored categories
categoryIds(store) ==
    { safeParse(store[CATEGORIES_KEY])[i].id : i \in DOMAIN safeParse(store[CATEGORIES_KEY]) }

\* C19: the category delete action rewrites the stored categories without the
\* records of the clicked id and leaves the stored products as they were
C19_NoCascade ==
    [][(page = "local" /\ outcome'.handler = "deleteCategory"
        /\ localStorage' # localStorage) =>
          /\ localStorage'[PRODUCTS_KEY] = localStorage[PRODUCTS_KEY]
          /\ \E id \in categoryIds(localStorage) :
                safeParse(localStorage'[CATEGORIES_KEY]) =
                    SelectSeq(safeParse(localStorage[CATEGORIES_KEY]), LAMBDA x : x.id # id)]_vars

\* C19 witness: a category has been deleted and a stored product still refers to it
C19_Witness ==
    /\ page = "local" /\ outcome.handler = "deleteCategory" /\ outcome.saved
    /\ \E i \in DOMAIN loadLocal(PRODUCTS_KEY) :
          /\ loadLocal(PRODUCTS_KEY)[i].category # NoCategory
          /\ loadLocal(PRODUCTS_KEY)[i].category.id \notin categoryIds(localStorage)

\* the text stored under the key of a loadLocal call
loadedText == localStorage[call.args[1]]

\* C20: loadLocal returns an array whatever is stored: the stored array when
\* the text is a JSON array, the empty array when the key is absent or the
\* text is malformed
C20_LoadFailsSoft ==
    (page = "calls" /\ call.fn = "loadLocal" /\ call.pc = "done") =>
        /\ call.result.type = "array"
        /\ loadedText.kind = "array" => call.result.items = loadedText.items
        /\ loadedText.kind \in {"absent", "malformed"} => call.result.items = <<>>

\* the search text or the chosen category changes in this step
filterChanges == <<searchProducts, categoryFilter>>' # <<searchProducts, categoryFilter>>

\* ids of the first page of the products that pass the new filter
firstPageIds ==
    LET rows == getPaginatedProducts(
                    getFilteredProducts(products', searchProducts', categoryFilter'), 1)
    IN  [i \in DOMAIN rows |-> rows[i].id]

\* ids of the first page of the products that pass the filter as it is now
firstPageIdsNow ==
    LET rows == getPaginatedProducts(
                    getFilteredProducts(products, searchProducts, categoryFilter), 1)
    IN  [i \in DOMAIN rows |-> rows[i].id]

\* C21: a step that changes the search text or the category filter sets the
\* current page to 1, whatever it was, and the table then shows the first
\* page of the filtered list
C21_FilterResetsPage ==
    [][(page = "panel" /\ filterChanges) =>
          /\ currentPage' = 1
          /\ tbody'.rows = firstPageIds]_vars

\* C21 witness: with more than one page of products loaded, a search text has
\* been typed, the current page is 1 and the table shows the matching rows
C21_Witness ==
    /\ page = "panel" /\ searchProducts = "RING" /\ categoryFilter = ""
    /\ Len(products) > itemsPerPage
    /\ currentPage = 1
    /\ tbody.state = "rows" /\ tbody.rows = firstPageIdsNow

\* the stored product collection before and after a step
storedProducts == safeParse(localStorage[PRODUCTS_KEY])
storedProductsAfter == safeParse(localStorage'[PRODUCTS_KEY])

\* the step prepends one product with a title to the stored collection and
\* keeps every record that was stored
prependsProduct ==
    /\ Len(storedProductsAfter) = Len(storedProducts) + 1
    /\ Tail(storedProductsAfter) = storedProducts
    /\ Head(storedProductsAfter).title # ""

\* the step removes the records of one stored id and keeps the others
removesOneId ==
    \E i \in DOMAIN storedProducts :
        storedProductsAfter =
            SelectSeq(storedProducts, LAMBDA x : x.id # storedProducts[i].id)

\* the step ends a product submit handler that got as far as its write
productHandlerEnds ==
    outcome'.handler = "addProduct" /\ (outcome'.saved \/ outcome'.quotaFailed)

allResponsesArrived == net = {}

\* C23: once all responses have arrived, the list in memory is the response
\* to the most recently issued reload, in whatever order the responses came.
\* When no request failed that response is the backend's table as it stands:
\* after answering it the backend changes its table only for an add, update
\* or delete, whose success issues a later reload
C23_LatestReloadWins ==
    (page = "panel" /\ allResponsesArrived /\ nfails = 0) => products = server

====
